---------------------------- MODULE Spec2Model ----------------------------
(***************************************************************************)
(* img-worker.js: the image normalisation worker.                          *)
(*                                                                         *)
(* The worker is one global object RUNTIME and one async message handler.  *)
(* A message event is a task of the worker's event loop: the handler runs  *)
(* from its first statement to its first await (or to its end), and every  *)
(* later stretch between two awaits runs when the awaited platform call    *)
(* settles.  Each such stretch is one action here.  A handler suspended at *)
(* an await does not keep the event loop from dispatching the next message *)
(* event, so several handler invocations may be suspended at once.         *)
(*                                                                         *)
(* Number representation.  JavaScript numbers are modelled by integers:    *)
(*   - JPEG qualities in hundredths (0.95 is 95);                          *)
(*   - maxQualityIters and maxResizePasses in units of 1/CountDen, so that *)
(*     a fractional override such as 1.5 is a value of the model;          *)
(*   - resizeDownFactor in units of 1/FactorDen (0.9 is 9);                *)
(*   - the scale as an exact fraction sn/sd with sd > 0.                   *)
(* A value that is absent, null or not a finite number is a tagged record. *)
(* The rounding error of floating-point subtraction is not modelled.       *)
(***************************************************************************)
EXTENDS Integers, Sequences, FiniteSets, TLC

VARIABLES
    RUNTIME,          \* the global RUNTIME object (src lines 17-28)
    hasImageDecoder,  \* typeof ImageDecoder !== "undefined" in this worker
    handlers,         \* one record per delivered message: the handler invocation
    lastInit,         \* the most recent init message (NoInit before the first)
    last,             \* the self.postMessage call of the step just taken, if any
    exif              \* one call of readJpegExifOrientation: its blob and its locals

vars == <<RUNTIME, hasImageDecoder, handlers, lastInit, last, exif>>

-----------------------------------------------------------------------------
(* Bounds of the model *)

\* messages delivered to the worker in one run
MaxMsgs == 3

\* largest blob size convertToBlob may report
MaxBlobBytes == 3

\* largest width and height of a decoded raster in the runs of renderResizedJpeg
MaxSide == 3

\* most IFD0 entries that precede the orientation entry of a byte stream
MaxOtherEntries == 2

(* Fixed-point denominators of the number representation *)
CountDen == 2

FactorDen == 10

-----------------------------------------------------------------------------
(* JavaScript values *)

Absent == [t |-> "absent", v |-> 0]        \* undefined / property missing

Null == [t |-> "null", v |-> 0]

NonNum == [t |-> "nonnum", v |-> 0]        \* a string, NaN or an Infinity

Num(n) == [t |-> "num", v |-> n]

isFiniteNumber(x) == x.t = "num"

\* JavaScript truthiness of a value that is null or a number (!x is ~Truthy(x))
Truthy(x) == x.t = "num" /\ x.v # 0

Max(a, b) == IF a >= b THEN a ELSE b

Min(a, b) == IF a <= b THEN a ELSE b

\* Math.round(n / d) for d > 0: the nearest integer, halves rounded up
Round(n, d) == (2 * n + d) \div (2 * d)


-----------------------------------------------------------------------------
(* The global RUNTIME object *)

RuntimeDefaults ==
    [ ready            |-> FALSE,
      maxLongSidePx    |-> 2560,
      targetMaxBytes   |-> Null,
      jpegQualityStart |-> 95,
      jpegMinQuality   |-> 65,
      jpegQualityStep  |-> 5,
      maxQualityIters  |-> 8 * CountDen,
      maxResizePasses  |-> 4 * CountDen,
      resizeDownFactor |-> 9,
      heicWasm         |-> "none" ]

\* the fields a process request reads after its pre-checks
LimitNames ==
    { "jpegQualityStart", "jpegMinQuality", "jpegQualityStep", "maxQualityIters",
      "maxResizePasses", "resizeDownFactor", "heicWasm" }

Limits(R) == [n \in LimitNames |-> R[n]]

-----------------------------------------------------------------------------
(* Inputs: the messages the caller may send *)

NoOverrides ==
    [ jpegQualityStart |-> Absent, jpegMinQuality |-> Absent, jpegQualityStep |-> Absent,
      maxQualityIters |-> Absent, maxResizePasses |-> Absent, resizeDownFactor |-> Absent ]

\* overrides for a short search: one resize pass of two quality iterations
ShortRun ==
    [NoOverrides EXCEPT !.maxResizePasses = Num(1 * CountDen),
                        !.maxQualityIters = Num(2 * CountDen)]

\* msg.overrides: tuning values, among them zero, negative, fractional and > 1
OverrideSet ==
    { NoOverrides,
      ShortRun,
      [NoOverrides EXCEPT !.maxResizePasses = Num(-1 * CountDen),
                          !.maxQualityIters = Num(2 * CountDen)],
      [NoOverrides EXCEPT !.maxResizePasses = Num(CountDen + 1),
                          !.maxQualityIters = Num(1)],
      [NoOverrides EXCEPT !.maxResizePasses = Num(2 * CountDen),
                          !.maxQualityIters = Num(0),
                          !.resizeDownFactor = Num(15)],
      [NoOverrides EXCEPT !.maxResizePasses = Num(1 * CountDen),
                          !.maxQualityIters = Num(3 * CountDen),
                          !.jpegQualityStep = Num(-5),
                          !.jpegQualityStart = Num(60)],
      [NoOverrides EXCEPT !.maxResizePasses = Num(2 * CountDen),
                          !.jpegQualityStep = Num(0),
                          !.jpegMinQuality = Num(99),
                          !.resizeDownFactor = Num(-5)],
      [NoOverrides EXCEPT !.maxResizePasses = Num(1 * CountDen),
                          !.jpegQualityStep = NonNum,
                          !.resizeDownFactor = Num(0)] }

\* config.constraints.images.target_max_bytes
BudgetSet == { Absent, NonNum, Num(0), Num(-1), Num(2) }

\* config.constraints.images.max_long_side_px
LongSideSet == { Absent, Num(0), Num(2) }

\* msg.heicWasmDecoder: none, an object with decodeToRGBA, an object without it
DecoderSet == { "none", "wasmA", "wasmNoFn" }

GoodConfig == [max_long_side_px |-> Num(2), target_max_bytes |-> Num(2)]

\* the init messages of the model: every budget, every long side, every set of
\* overrides and every decoder, each varied with the rest held fixed
InitMsgs ==
    { [config |-> [max_long_side_px |-> Absent, target_max_bytes |-> b],
       overrides |-> NoOverrides, heicWasmDecoder |-> "none"] : b \in BudgetSet }
    \cup { [config |-> [max_long_side_px |-> l, target_max_bytes |-> Num(2)],
            overrides |-> NoOverrides, heicWasmDecoder |-> "none"] : l \in LongSideSet }
    \cup { [config |-> GoodConfig, overrides |-> o, heicWasmDecoder |-> "none"] :
              o \in OverrideSet }
    \cup { [config |-> GoodConfig, overrides |-> ShortRun, heicWasmDecoder |-> d] :
              d \in DecoderSet }

NoInit == [config |-> [max_long_side_px |-> Absent, target_max_bytes |-> Null],
           overrides |-> NoOverrides, heicWasmDecoder |-> "noinit"]

ConfigBudget(m) == m.config.target_max_bytes

\* msg.file: absent, or a Blob with a declared type and a name suffix
NoFile == [present |-> FALSE, type |-> "", ext |-> ""]

FileSet ==
    { NoFile,
      [present |-> TRUE, type |-> "image/jpeg", ext |-> ".jpg"],
      [present |-> TRUE, type |-> "", ext |-> ".heic"],
      [present |-> TRUE, type |-> "IMAGE/PNG", ext |-> ""] }

\* the rasters a decode may produce (width, height)
RasterSet == { [w |-> 4, h |-> 2] }

\* the orientation tags the manual EXIF path may report (readJpegExifOrientation)
ExifOrientations == { 1, 6 }

\* decoded.orientation of the plugin: absent, a tag, a value outside 1..8
PluginOrientations == { Absent, Num(6), Num(9) }

BlobSizes == 1..MaxBlobBytes

-----------------------------------------------------------------------------
(* Responses: the payloads of self.postMessage *)

NoResult ==
    [ bytes |-> 0, width |-> 0, height |-> 0, quality |-> 0, sn |-> 0, sd |-> 1,
      pass |-> 0, iter |-> 0, bestEffortOverLimit |-> "noresult" ]

\* err(code, message, extra): extra carries type and, where the code passes it, requestId
err(code, type, requestId) ==
    [ ok |-> FALSE, type |-> type, code |-> code, requestId |-> requestId,
      warnings |-> 0, normalized |-> NoResult ]

\* ok(payload) of an init
InitOk(warnings) ==
    [ ok |-> TRUE, type |-> "init_ok", code |-> "", requestId |-> Absent,
      warnings |-> warnings, normalized |-> NoResult ]

\* ok(payload) of a process request; normalized is renderResizedJpeg's result
ProcessOk(requestId, normalized) ==
    [ ok |-> TRUE, type |-> "process_ok", code |-> "", requestId |-> requestId,
      warnings |-> 0, normalized |-> normalized ]

NoResponse == err("", "none", Absent)

-----------------------------------------------------------------------------
(* Handler invocations *)

\* A handler invocation: its position (pc), its message, the locals of
\* self.onmessage, bitmapFromHeic and renderResizedJpeg, and what it has done so far.
NoHandler ==
    [ kind |-> "none", pc |-> "done",
      requestId |-> Absent, file |-> NoFile, mime |-> "",
      \* decoded = { bitmap, orientation, orientationMode }
      srcW |-> 0, srcH |-> 0, orientation |-> 1, orientationMode |-> "",
      \* renderResizedJpeg's parameters and locals
      maxLongSidePx |-> 0, targetMaxBytes |-> 0, oW |-> 0, oH |-> 0,
      sn |-> 0, sd |-> 1, pass |-> 0, outW |-> 0, outH |-> 0, q |-> 0, iter |-> 0,
      \* resources held: the decoded bitmap, canvases not yet zeroed
      bitmapOpen |-> FALSE, canvases |-> 0,
      \* history of this invocation
      configBudgetAtReceipt |-> ConfigBudget(NoInit),
                                      \* target_max_bytes of the latest init message
                                      \* when it was received
      readyAtReceipt |-> FALSE,
      budgetAtReceipt |-> Null,       \* RUNTIME.targetMaxBytes when it was received
      limitsAtReceipt |-> Limits(RuntimeDefaults),
      maxItersSeen |-> 0,             \* largest maxQualityIters in force during it
      maxPassesSeen |-> 0,            \* largest maxResizePasses in force during it
      posts |-> 0,                    \* self.postMessage calls made
      decodes |-> 0,                  \* decode attempts started
      loopEncodes |-> 0,              \* convertToBlob calls inside the loops
      finalEncodes |-> 0,             \* convertToBlob calls of the final render
      trace |-> << >>,                \* HEIC strategies tried, in order
      \* history of renderResizedJpeg
      limitsAtRender |-> Limits(RuntimeDefaults),   \* the limits when it was called
      sn0 |-> 0, sd0 |-> 1,           \* the initial scale
      prevSn |-> 0, prevSd |-> 1,     \* the scale of the previous composite
      composites |-> 0,               \* canvases composited
      prevQ |-> Absent,               \* quality of the previous encode of this pass
      floor |-> 0,                    \* jpegMinQuality when the encode was called
      allOver |-> TRUE,               \* every encode of this pass exceeded the budget
      prevAllOver |-> TRUE,           \* every encode of the previous pass did
      firstFit |-> "none",            \* whether its first encode fitted the budget
      loopMinW |-> 0, loopMinH |-> 0, \* smallest width, height and quality of the
      loopMinQ |-> 0 ]                \* attempts made inside the loops

InFlight(h) == h.pc # "done"

Rendering(h) == h.pc \in {"encode", "finalEncode"}

\* the outcome of one stretch of a handler: its record and what it posted
Await(h, pc) == [h |-> [h EXCEPT !.pc = pc], out |-> << >>]

Done(h, resp) == [h |-> [h EXCEPT !.pc = "done"], out |-> <<resp>>]

\* mutant of Catch: the exception is swallowed and nothing is posted
CatchSilent(h) == [h |-> [h EXCEPT !.pc = "done"], out |-> << >>]

\* lines 467-469: any exception of the try block
Catch(h) == Done(h, err("E_WORKER_EXCEPTION", "", Absent))

-----------------------------------------------------------------------------
(* init: lines 339-381 *)

Override(o, name, old) == IF isFiniteNumber(o[name]) THEN o[name].v ELSE old

\* mutant of InitRuntime: an init without a budget keeps the previous budget
InitRuntimeKeepsBudget(R, m) ==
    LET maxLongSide == m.config.max_long_side_px
        targetMax   == m.config.target_max_bytes
        o           == m.overrides
    IN  [ ready            |-> TRUE,
          maxLongSidePx    |-> IF isFiniteNumber(maxLongSide) THEN maxLongSide.v ELSE 2560,
          targetMaxBytes   |-> IF isFiniteNumber(targetMax) THEN targetMax
                               ELSE R.targetMaxBytes,
          jpegQualityStart |-> Override(o, "jpegQualityStart", R.jpegQualityStart),
          jpegMinQuality   |-> Override(o, "jpegMinQuality", R.jpegMinQuality),
          jpegQualityStep  |-> Override(o, "jpegQualityStep", R.jpegQualityStep),
          maxQualityIters  |-> Override(o, "maxQualityIters", R.maxQualityIters),
          maxResizePasses  |-> Override(o, "maxResizePasses", R.maxResizePasses),
          resizeDownFactor |-> Override(o, "resizeDownFactor", R.resizeDownFactor),
          heicWasm         |-> IF m.heicWasmDecoder # "none" THEN m.heicWasmDecoder
                               ELSE R.heicWasm ]

\* mutant of InitRuntime: a tuning value the message does not name goes back to
\* its default
InitRuntimeResetsTuning(R, m) ==
    LET maxLongSide == m.config.max_long_side_px
        targetMax   == m.config.target_max_bytes
        o           == m.overrides
        D           == RuntimeDefaults
    IN  [ ready            |-> TRUE,
          maxLongSidePx    |-> IF isFiniteNumber(maxLongSide) THEN maxLongSide.v ELSE 2560,
          targetMaxBytes   |-> IF isFiniteNumber(targetMax) THEN targetMax ELSE Null,
          jpegQualityStart |-> Override(o, "jpegQualityStart", D.jpegQualityStart),
          jpegMinQuality   |-> Override(o, "jpegMinQuality", D.jpegMinQuality),
          jpegQualityStep  |-> Override(o, "jpegQualityStep", D.jpegQualityStep),
          maxQualityIters  |-> Override(o, "maxQualityIters", D.maxQualityIters),
          maxResizePasses  |-> Override(o, "maxResizePasses", D.maxResizePasses),
          resizeDownFactor |-> Override(o, "resizeDownFactor", D.resizeDownFactor),
          heicWasm         |-> IF m.heicWasmDecoder # "none" THEN m.heicWasmDecoder
                               ELSE R.heicWasm ]

\* lines 340-363: RUNTIME after an init message m
InitRuntime(R, m) ==
    LET maxLongSide == m.config.max_long_side_px
        targetMax   == m.config.target_max_bytes
        o           == m.overrides
    IN  [ ready            |-> TRUE,
          maxLongSidePx    |-> IF isFiniteNumber(maxLongSide) THEN maxLongSide.v ELSE 2560,
          targetMaxBytes   |-> IF isFiniteNumber(targetMax) THEN targetMax ELSE Null,
          jpegQualityStart |-> Override(o, "jpegQualityStart", R.jpegQualityStart),
          jpegMinQuality   |-> Override(o, "jpegMinQuality", R.jpegMinQuality),
          jpegQualityStep  |-> Override(o, "jpegQualityStep", R.jpegQualityStep),
          maxQualityIters  |-> Override(o, "maxQualityIters", R.maxQualityIters),
          maxResizePasses  |-> Override(o, "maxResizePasses", R.maxResizePasses),
          resizeDownFactor |-> Override(o, "resizeDownFactor", R.resizeDownFactor),
          heicWasm         |-> IF m.heicWasmDecoder # "none" THEN m.heicWasmDecoder
                               ELSE R.heicWasm ]

\* lines 365-368: the number of warnings of the acknowledgment
InitWarnings(R) == IF ~Truthy(R.targetMaxBytes) THEN 1 ELSE 0

\* lines 370-380
InitResponse(R) == InitOk(InitWarnings(R))

-----------------------------------------------------------------------------
(* renderResizedJpeg: lines 254-332 *)

\* lines 131-135
orientedSize(w, h, orientation) ==
    IF orientation >= 5 /\ orientation <= 8 THEN [w |-> h, h |-> w] ELSE [w |-> w, h |-> h]

\* lines 271-272, 314-315: Math.max(1, Math.round(side * scale))
OutDim(side, sn, sd) == Max(1, Round(side * sn, sd))

\* mutant of Accepted: the comparison is off by one
AcceptedOffByOne(size, targetMaxBytes) == size <= targetMaxBytes + 1

\* line 287
Accepted(size, targetMaxBytes) == size <= targetMaxBytes

\* line 330
BestEffortOverLimit(size, targetMaxBytes) == size > targetMaxBytes

\* line 292
NextQ(R, q) == Max(R.jpegMinQuality, q - R.jpegQualityStep)

\* line 270
MorePasses(R, pass) == pass * CountDen < R.maxResizePasses

\* mutant of MoreIters: the loop runs one iteration too many
MoreItersInclusive(R, iter) == iter * CountDen <= R.maxQualityIters

\* line 284
MoreIters(R, iter) == iter * CountDen < R.maxQualityIters

\* line 288: the accepted attempt (pass and iter in units of 1/CountDen)
BestResult(h, size) ==
    [ bytes |-> size, width |-> h.outW, height |-> h.outH, quality |-> h.q,
      sn |-> h.sn, sd |-> h.sd, pass |-> h.pass * CountDen, iter |-> h.iter * CountDen,
      bestEffortOverLimit |-> "absent" ]

\* lines 322-331: the best-effort result; RUNTIME is read when the encode has returned
FinalResult(h, size, R) ==
    [ bytes |-> size, width |-> h.outW, height |-> h.outH, quality |-> R.jpegMinQuality,
      sn |-> h.sn, sd |-> h.sd, pass |-> R.maxResizePasses, iter |-> R.maxQualityIters,
      bestEffortOverLimit |->
          IF BestEffortOverLimit(size, h.targetMaxBytes) THEN "true" ELSE "false" ]

\* lines 436-463: close the bitmap, post process_ok
Finish(h, normalized) ==
    Done([h EXCEPT !.bitmapOpen = FALSE], ProcessOk(h.requestId, normalized))

\* lines 312-319: the final render, up to its await of convertToBlob
FinalRender(h, R) ==
    Await([h EXCEPT !.outW = OutDim(h.oW, h.sn, h.sd),
                    !.outH = OutDim(h.oH, h.sn, h.sd),
                    !.canvases = @ + 1,
                    !.q = R.jpegMinQuality,
                    !.finalEncodes = @ + 1,
                    !.composites = @ + 1,
                    !.prevQ = Absent,
                    !.floor = R.jpegMinQuality], "finalEncode")

RECURSIVE ResizeLoop(_, _)

\* lines 305-309: zero the canvas, shrink the scale, next pass
Shrink(h, R) ==
    ResizeLoop([h EXCEPT !.canvases = @ - 1,
                         !.sn = @ * R.resizeDownFactor,
                         !.sd = @ * FactorDen,
                         !.pass = @ + 1,
                         !.prevSn = h.sn,
                         !.prevSd = h.sd,
                         !.prevAllOver = h.allOver], R)

\* lines 284-285: the head of the quality loop, up to its await of convertToBlob
QualityLoop(h, R) ==
    IF MoreIters(R, h.iter)
    THEN Await([h EXCEPT !.loopEncodes = @ + 1,
                         !.floor = R.jpegMinQuality,
                         !.loopMinW = IF h.loopEncodes = 0 THEN h.outW ELSE Min(@, h.outW),
                         !.loopMinH = IF h.loopEncodes = 0 THEN h.outH ELSE Min(@, h.outH),
                         !.loopMinQ = IF h.loopEncodes = 0 THEN h.q ELSE Min(@, h.q)],
               "encode")
    ELSE Shrink(h, R)

\* lines 270-282: the head of the resize loop; a new canvas is composited per pass
ResizeLoop(h, R) ==
    IF MorePasses(R, h.pass)
    THEN QualityLoop([h EXCEPT !.outW = OutDim(h.oW, h.sn, h.sd),
                               !.outH = OutDim(h.oH, h.sn, h.sd),
                               !.canvases = @ + 1,
                               !.q = R.jpegQualityStart,
                               !.iter = 0,
                               !.composites = @ + 1,
                               !.prevQ = Absent,
                               !.allOver = TRUE], R)
    ELSE FinalRender(h, R)

\* mutant of StartRender: the scale is maxLongSidePx / longSide also for a raster
\* that is within the limit
StartRenderAlwaysScaled(h, R) ==
    IF R.maxLongSidePx <= 0 THEN Catch(h)
    ELSE IF ~isFiniteNumber(R.targetMaxBytes) \/ R.targetMaxBytes.v <= 0 THEN Catch(h)
    ELSE LET oSize    == orientedSize(h.srcW, h.srcH, h.orientation)
             longSide == Max(oSize.w, oSize.h)
         IN  ResizeLoop([h EXCEPT !.maxLongSidePx = R.maxLongSidePx,
                                  !.targetMaxBytes = R.targetMaxBytes.v,
                                  !.oW = oSize.w, !.oH = oSize.h,
                                  !.sn = R.maxLongSidePx,
                                  !.sd = longSide,
                                  !.pass = 0,
                                  !.limitsAtRender = Limits(R),
                                  !.sn0 = R.maxLongSidePx,
                                  !.sd0 = longSide,
                                  !.prevSn = R.maxLongSidePx,
                                  !.prevSd = longSide], R)

\* lines 255-268: validation, oriented size, initial scale (OffscreenCanvas exists
\* in the worker, so line 257 does not throw)
StartRender(h, R) ==
    IF R.maxLongSidePx <= 0 THEN Catch(h)
    ELSE IF ~isFiniteNumber(R.targetMaxBytes) \/ R.targetMaxBytes.v <= 0 THEN Catch(h)
    ELSE LET oSize    == orientedSize(h.srcW, h.srcH, h.orientation)
             longSide == Max(oSize.w, oSize.h)
             big      == longSide > R.maxLongSidePx
         IN  ResizeLoop([h EXCEPT !.maxLongSidePx = R.maxLongSidePx,
                                  !.targetMaxBytes = R.targetMaxBytes.v,
                                  !.oW = oSize.w, !.oH = oSize.h,
                                  !.sn = IF big THEN R.maxLongSidePx ELSE 1,
                                  !.sd = IF big THEN longSide ELSE 1,
                                  !.pass = 0,
                                  !.limitsAtRender = Limits(R),
                                  !.sn0 = IF big THEN R.maxLongSidePx ELSE 1,
                                  !.sd0 = IF big THEN longSide ELSE 1,
                                  !.prevSn = IF big THEN R.maxLongSidePx ELSE 1,
                                  !.prevSd = IF big THEN longSide ELSE 1], R)

\* history: whether the first blob convertToBlob returned was within the budget
FirstFit(h, size) ==
    IF h.firstFit # "none" THEN h.firstFit
    ELSE IF size <= h.targetMaxBytes THEN "yes" ELSE "no"

\* mutant of AfterEncode: a blob over the budget shrinks the scale at once
AfterEncodeShrinksAtOnce(h, size, R) ==
    LET h1 == [h EXCEPT !.allOver = @ /\ size > h.targetMaxBytes,
                        !.firstFit = FirstFit(h, size)]
    IN  IF Accepted(size, h.targetMaxBytes)
        THEN Finish([h1 EXCEPT !.canvases = @ - 1], BestResult(h, size))
        ELSE Shrink(h1, R)

\* lines 285-296 resumed: convertToBlob of the quality loop returned a blob of `size`
AfterEncode(h, size, R) ==
    LET h1 == [h EXCEPT !.allOver = @ /\ size > h.targetMaxBytes,
                        !.firstFit = FirstFit(h, size)]
    IN  IF Accepted(size, h.targetMaxBytes)
        THEN Finish([h1 EXCEPT !.canvases = @ - 1], BestResult(h, size))
        ELSE LET nextQ == NextQ(R, h.q)
             IN  IF nextQ = h.q THEN Shrink(h1, R)
                 ELSE QualityLoop([h1 EXCEPT !.q = nextQ, !.iter = @ + 1,
                                             !.prevQ = Num(h.q)], R)

\* lines 319-331 resumed: convertToBlob of the final render returned a blob of `size`
AfterFinalEncode(h, size, R) ==
    Finish([h EXCEPT !.canvases = @ - 1, !.firstFit = FirstFit(h, size)],
           FinalResult(h, size, R))

-----------------------------------------------------------------------------
(* decode: lines 34-48, 192-252 *)

\* String(x).toLowerCase() on the declared types of the model
ToLowerCase(t) == IF t = "IMAGE/PNG" THEN "image/png" ELSE t

\* lines 34-44
inferMime(file) ==
    IF file.type # "" THEN ToLowerCase(file.type)
    ELSE IF file.ext = ".heic" THEN "image/heic"
    ELSE IF file.ext = ".heif" THEN "image/heif"
    ELSE IF file.ext \in {".jpg", ".jpeg"} THEN "image/jpeg"
    ELSE IF file.ext = ".png" THEN "image/png"
    ELSE IF file.ext = ".webp" THEN "image/webp"
    ELSE ""

\* lines 46-48
isHeicLike(mime) ==
    mime \in {"image/heic", "image/heif", "image/heic-sequence", "image/heif-sequence"}

\* lines 413-420: bitmapFromHeic threw
HeicFailed(h) == Done(h, err("E_HEIC_CONVERT_FAILED", "process_err", h.requestId))

\* lines 425-434: decoded is there; orientation = decoded.orientation || 1
AfterDecode(h, raster, orientation, mode, R) ==
    StartRender([h EXCEPT !.srcW = raster.w, !.srcH = raster.h,
                          !.orientation = IF orientation = 0 THEN 1 ELSE orientation,
                          !.orientationMode = mode,
                          !.bitmapOpen = TRUE], R)

\* line 226: a decoder with a decodeToRGBA function is installed
HasWasmDecoder(R) == R.heicWasm = "wasmA"

\* lines 225-251: strategy 2, up to its await of file.arrayBuffer(); else strategy 3
HeicPlugin(h, R) ==
    IF HasWasmDecoder(R) THEN Await(h, "heicData") ELSE HeicFailed(h)

\* lines 208-214: strategy 1, up to its first await, when the platform codec exists
bitmapFromHeic(h, R, imageDecoder) ==
    IF imageDecoder
    THEN Await([h EXCEPT !.decodes = @ + 1, !.trace = Append(@, "platform")], "heicNative")
    ELSE HeicPlugin(h, R)

\* mutant of AfterHeicNative: the plugin is tried whatever the platform codec did
AfterHeicNativeThenPlugin(h, success, raster, R) ==
    HeicPlugin([h EXCEPT !.trace = Append(@, IF success THEN "platform_ok"
                                             ELSE "platform_failed")], R)

\* lines 214-222 resumed: the platform codec's decode settled
AfterHeicNative(h, success, raster, R) ==
    IF success
    THEN AfterDecode([h EXCEPT !.trace = Append(@, "platform_ok")],
                     raster, 1, "webcodecs_imagedecoder", R)
    ELSE HeicPlugin([h EXCEPT !.trace = Append(@, "platform_failed")], R)

\* lines 227-228 resumed: file.arrayBuffer() settled; RUNTIME.heicWasm.decodeToRGBA
\* is read again and called
AfterHeicData(h, success, R) ==
    IF success /\ HasWasmDecoder(R)
    THEN Await([h EXCEPT !.decodes = @ + 1, !.trace = Append(@, "plugin")], "heicDecode")
    ELSE HeicFailed(h)

\* the payloads decodeToRGBA may settle with
PluginPayloads ==
    { [kind |-> k, raster |-> [w |-> 0, h |-> 0], orientation |-> Absent] :
         k \in {"throws", "invalid"} }
    \cup { [kind |-> k, raster |-> r, orientation |-> o] :
              k \in {"valid", "rgbaMismatch"}, r \in RasterSet, o \in PluginOrientations }

\* lines 228-247 resumed: decodeToRGBA settled with payload p
AfterHeicDecode(h, p, R) ==
    IF p.kind \in {"throws", "invalid"} THEN HeicFailed(h)
    ELSE IF p.kind = "rgbaMismatch"
         \* new ImageData(...) throws after the staging canvas was created
         THEN HeicFailed([h EXCEPT !.canvases = @ + 1])
    ELSE AfterDecode(h, p.raster,
                     IF isFiniteNumber(p.orientation) THEN p.orientation.v ELSE 1,
                     "wasm_rgba", R)

\* lines 195-203 resumed: createImageBitmap(file, {imageOrientation}) settled
AfterNativeDecode(h, success, raster, R) ==
    IF success THEN AfterDecode(h, raster, 1, "native_from-image", R)
    ELSE IF h.mime = "image/jpeg" THEN Await(h, "exif")
    ELSE Await([h EXCEPT !.orientation = 1, !.decodes = @ + 1], "decodeFallback")

\* line 201 resumed: readJpegExifOrientation returned
AfterExif(h, orientation) ==
    Await([h EXCEPT !.orientation = orientation, !.decodes = @ + 1], "decodeFallback")

\* lines 202-203 resumed: createImageBitmap(file) settled
AfterFallbackDecode(h, success, raster, R) ==
    IF success THEN AfterDecode(h, raster, h.orientation, "manual_exif_or_unknown", R)
    ELSE Catch(h)

-----------------------------------------------------------------------------
(* readJpegExifOrientation: lines 59-129 *)

\* the markers and tags the function compares with
SOI == 65496                \* 0xFFD8

EOI == 65497                \* 0xFFD9

SOS == 65498                \* 0xFFDA

APP1 == 65505               \* 0xFFE1

ExifSignature == <<69, 120, 105, 102, 0, 0>>      \* "Exif\0\0"

LittleEndianMark == 18761   \* 0x4949, "II"

TiffMagic == 42             \* 0x002A

OrientationTag == 274       \* 0x0112

ShortType == 3

\* the largest integer of the model: a 32-bit value of 2^31 or more is read as
\* this one (the function compares such a value only with smaller constants and
\* with the length of the buffer)
U32Cap == 2147483647

\* a DataView read of n bytes at offset o stays inside the buffer (else RangeError)
InRange(buf, o, n) == o >= 0 /\ o + n <= Len(buf)

\* dv.getUint16(o, little)
getUint16(buf, o, little) ==
    IF little THEN buf[o + 1] + 256 * buf[o + 2]
    ELSE 256 * buf[o + 1] + buf[o + 2]

\* dv.getUint32(o, little)
getUint32(buf, o, little) ==
    LET b1 == IF little THEN buf[o + 4] ELSE buf[o + 1]
        b2 == IF little THEN buf[o + 3] ELSE buf[o + 2]
        b3 == IF little THEN buf[o + 2] ELSE buf[o + 3]
        b4 == IF little THEN buf[o + 1] ELSE buf[o + 4]
    IN  IF b1 >= 128 THEN U32Cap
        ELSE ((b1 * 256 + b2) * 256 + b3) * 256 + b4

\* the state of a call: where it is, its buffer, its locals, what it returned
NoExif ==
    [ pc |-> "idle", buf |-> << >>, meta |-> "none", offset |-> 0, little |-> FALSE,
      ifd0 |-> 0, entries |-> 0, i |-> 0, result |-> 0, caught |-> FALSE ]

ExifReturn(e, value) == [e EXCEPT !.pc = "returned", !.result = value]

\* mutant of ExifCatch: the exception leaves the function
ExifRethrow(e) == [e EXCEPT !.pc = "raised", !.caught = TRUE]

\* lines 126-128: an exception of the try block (a RangeError of a DataView read)
ExifCatch(e) == [e EXCEPT !.pc = "returned", !.result = 1, !.caught = TRUE]

\* lines 62-67: the buffer is there; the SOI check
ExifOpen(e) ==
    IF ~InRange(e.buf, 0, 2) THEN ExifCatch(e)
    ELSE IF getUint16(e.buf, 0, FALSE) # SOI THEN ExifReturn(e, 1)
    ELSE [e EXCEPT !.pc = "scan", !.offset = 2]

\* lines 83-84: the segment's payload starts with "Exif\0\0"; "throws" when a read
\* leaves the buffer (the second read is made only when the first one matches)
exifHeader(buf, offset) ==
    IF ~InRange(buf, offset, 4) THEN "throws"
    ELSE IF getUint32(buf, offset, FALSE) # 1165519206 THEN "no"      \* 0x45786966
    ELSE IF ~InRange(buf, offset + 4, 2) THEN "throws"
    ELSE IF getUint16(buf, offset + 4, FALSE) = 0 THEN "yes" ELSE "no"

\* lines 90-103: the TIFF header of an Exif segment whose payload starts at offset
ExifTiff(e, offset) ==
    LET buf        == e.buf
        tiffOffset == offset + 6
    IN  IF ~InRange(buf, tiffOffset, 2) THEN ExifCatch(e)
        ELSE LET little == getUint16(buf, tiffOffset, FALSE) = LittleEndianMark
             IN  IF ~InRange(buf, tiffOffset + 2, 2) THEN ExifCatch(e)
                 ELSE IF getUint16(buf, tiffOffset + 2, little) # TiffMagic
                      THEN ExifReturn(e, 1)
                 ELSE IF ~InRange(buf, tiffOffset + 4, 4) THEN ExifCatch(e)
                 ELSE LET ifd0Rel == getUint32(buf, tiffOffset + 4, little)
                      IN  \* line 100: ifd0 + 2 > dv.byteLength
                          IF ifd0Rel > Len(buf) \/ tiffOffset + ifd0Rel + 2 > Len(buf)
                          THEN ExifReturn(e, 1)
                          ELSE [e EXCEPT !.pc = "ifd",
                                         !.little = little,
                                         !.entries = getUint16(buf, tiffOffset + ifd0Rel,
                                                               little),
                                         !.ifd0 = tiffOffset + ifd0Rel + 2,
                                         !.i = 0]

\* lines 69-123: one iteration of the scan over the segments
ExifScan(e) ==
    LET buf == e.buf
    IN  IF ~(e.offset + 4 < Len(buf)) THEN ExifReturn(e, 1)
        ELSE LET marker == getUint16(buf, e.offset, FALSE)
                 size   == getUint16(buf, e.offset + 2, FALSE)
                 offset == e.offset + 4
             IN  IF marker = EOI \/ marker = SOS THEN ExifReturn(e, 1)
                 ELSE IF size < 2 THEN ExifReturn(e, 1)
                 ELSE IF marker = APP1
                 THEN CASE exifHeader(buf, offset) = "throws" -> ExifCatch(e)
                        [] exifHeader(buf, offset) = "no" ->
                              [e EXCEPT !.offset = offset + size - 2]
                        [] OTHER -> ExifTiff(e, offset)
                 ELSE [e EXCEPT !.offset = offset + size - 2]

\* mutant of OrientationOf: the value is returned without the range check
OrientationUnchecked(type, count, value) ==
    IF type # ShortType \/ count # 1 THEN 1 ELSE value

\* lines 111-116: the value of an orientation entry
OrientationOf(type, count, value) ==
    IF type # ShortType \/ count # 1 THEN 1
    ELSE IF value >= 1 /\ value <= 8 THEN value
    ELSE 1

\* lines 105-119: one iteration of the loop over the entries of IFD0
ExifEntry(e) ==
    LET buf   == e.buf
        entry == e.ifd0 + e.i * 12
    IN  IF ~(e.i < e.entries) THEN ExifReturn(e, 1)
        ELSE IF entry + 12 > Len(buf) THEN ExifReturn(e, 1)
        ELSE IF getUint16(buf, entry, e.little) = OrientationTag
             THEN ExifReturn(e, OrientationOf(getUint16(buf, entry + 2, e.little),
                                              getUint32(buf, entry + 4, e.little),
                                              getUint16(buf, entry + 8, e.little)))
        ELSE [e EXCEPT !.i = @ + 1]

-----------------------------------------------------------------------------
(* process: lines 383-464, up to the first await *)

\* mutant of ProcessStart: the file is checked before the byte budget
ProcessStartFileFirst(h, R, imageDecoder) ==
    IF ~R.ready
    THEN Done(h, err("E_NOT_INITIALIZED", "process_err", Absent))
    ELSE IF ~h.file.present
    THEN Done(h, err("E_NO_FILE", "process_err", h.requestId))
    ELSE IF ~Truthy(R.targetMaxBytes)
    THEN Done(h, err("E_CONFIG_TARGET_MAX_BYTES_MISSING", "process_err", Absent))
    ELSE LET mime == inferMime(h.file)
             h1   == [h EXCEPT !.mime = mime]
         IN  IF isHeicLike(mime) THEN bitmapFromHeic(h1, R, imageDecoder)
             ELSE Await([h1 EXCEPT !.decodes = @ + 1], "decode")

\* lines 383-423
ProcessStart(h, R, imageDecoder) ==
    IF ~R.ready
    THEN Done(h, err("E_NOT_INITIALIZED", "process_err", Absent))
    ELSE IF ~Truthy(R.targetMaxBytes)
    THEN Done(h, err("E_CONFIG_TARGET_MAX_BYTES_MISSING", "process_err", Absent))
    ELSE IF ~h.file.present
    THEN Done(h, err("E_NO_FILE", "process_err", h.requestId))
    ELSE LET mime == inferMime(h.file)
             h1   == [h EXCEPT !.mime = mime]
         IN  IF isHeicLike(mime) THEN bitmapFromHeic(h1, R, imageDecoder)
             ELSE Await([h1 EXCEPT !.decodes = @ + 1], "decode")

\* line 466
UnknownMessage(h) == Done(h, err("E_UNKNOWN_MESSAGE", "unknown_err", Absent))

-----------------------------------------------------------------------------
(* The state machine *)

NoPost == [id |-> 0, resp |-> NoResponse, h |-> NoHandler]

Init ==
    /\ RUNTIME = RuntimeDefaults
    /\ hasImageDecoder \in BOOLEAN
    /\ handlers = << >>
    /\ lastInit = NoInit
    /\ last = NoPost
    /\ exif = NoExif

\* a finished invocation keeps its kind and its count of posts only
Settle(h) ==
    IF h.pc = "done"
    THEN [NoHandler EXCEPT !.kind = h.kind, !.posts = h.posts]
    ELSE h

\* the record of an invocation after a stretch that posted r.out
Posted(r) == [r.h EXCEPT !.posts = @ + Len(r.out)]

LastAfter(i, r) ==
    IF r.out = << >> THEN NoPost
    ELSE [id |-> i, resp |-> r.out[Len(r.out)], h |-> Posted(r)]

\* handler i ran a stretch with outcome r
Commit(i, r) ==
    /\ handlers' = [handlers EXCEPT ![i] = Settle(Posted(r))]
    /\ last' = LastAfter(i, r)
    /\ UNCHANGED <<RUNTIME, hasImageDecoder, lastInit, exif>>

\* a message event is dispatched: handler Len(handlers) + 1 runs its first stretch
Accept(r) ==
    /\ handlers' = Append(handlers, Settle(Posted(r)))
    /\ last' = LastAfter(Len(handlers) + 1, r)

\* what an in-flight invocation has seen of the limits, after RUNTIME became R
Seen(h, R) ==
    [h EXCEPT !.maxItersSeen = Max(@, R.maxQualityIters),
              !.maxPassesSeen = Max(@, R.maxResizePasses)]

ReceiveInit(m) ==
    /\ Len(handlers) < MaxMsgs
    /\ RUNTIME' = InitRuntime(RUNTIME, m)
    /\ lastInit' = m
    /\ LET r == Done([NoHandler EXCEPT !.kind = "init"], InitResponse(RUNTIME'))
       IN  /\ handlers' = Append([i \in DOMAIN handlers |-> Seen(handlers[i], RUNTIME')],
                                 Settle(Posted(r)))
           /\ last' = LastAfter(Len(handlers) + 1, r)
    /\ UNCHANGED <<hasImageDecoder, exif>>

ReceiveProcess(file) ==
    /\ Len(handlers) < MaxMsgs
    /\ LET h == [NoHandler EXCEPT !.kind = "process",
                                  !.requestId = Num(Len(handlers) + 1),
                                  !.file = file,
                                  !.configBudgetAtReceipt = ConfigBudget(lastInit),
                                  !.readyAtReceipt = RUNTIME.ready,
                                  !.budgetAtReceipt = RUNTIME.targetMaxBytes,
                                  !.limitsAtReceipt = Limits(RUNTIME),
                                  !.maxItersSeen = RUNTIME.maxQualityIters,
                                  !.maxPassesSeen = RUNTIME.maxResizePasses]
       IN  Accept(ProcessStart(h, RUNTIME, hasImageDecoder))
    /\ UNCHANGED <<RUNTIME, hasImageDecoder, lastInit, exif>>

ReceiveOther ==
    /\ Len(handlers) < MaxMsgs
    /\ Accept(UnknownMessage([NoHandler EXCEPT !.kind = "other"]))
    /\ UNCHANGED <<RUNTIME, hasImageDecoder, lastInit, exif>>

At(i, pc) == i \in DOMAIN handlers /\ handlers[i].pc = pc

NativeDecodeSettles(i) ==
    /\ At(i, "decode")
    /\ \E success \in BOOLEAN, raster \in RasterSet :
          Commit(i, AfterNativeDecode(handlers[i], success, raster, RUNTIME))

ExifReturns(i) ==
    /\ At(i, "exif")
    /\ \E orientation \in ExifOrientations :
          Commit(i, AfterExif(handlers[i], orientation))

FallbackDecodeSettles(i) ==
    /\ At(i, "decodeFallback")
    /\ \E success \in BOOLEAN, raster \in RasterSet :
          Commit(i, AfterFallbackDecode(handlers[i], success, raster, RUNTIME))

HeicNativeSettles(i) ==
    /\ At(i, "heicNative")
    /\ \E success \in BOOLEAN, raster \in RasterSet :
          Commit(i, AfterHeicNative(handlers[i], success, raster, RUNTIME))

HeicDataSettles(i) ==
    /\ At(i, "heicData")
    /\ \E success \in BOOLEAN :
          Commit(i, AfterHeicData(handlers[i], success, RUNTIME))

HeicDecodeSettles(i) ==
    /\ At(i, "heicDecode")
    /\ \E p \in PluginPayloads :
          Commit(i, AfterHeicDecode(handlers[i], p, RUNTIME))

EncodeReturns(i) ==
    /\ At(i, "encode")
    /\ \E size \in BlobSizes :
          Commit(i, AfterEncode(handlers[i], size, RUNTIME))

FinalEncodeReturns(i) ==
    /\ At(i, "finalEncode")
    /\ \E size \in BlobSizes :
          Commit(i, AfterFinalEncode(handlers[i], size, RUNTIME))

\* convertToBlob rejects: the exception leaves renderResizedJpeg and reaches the catch
EncodeThrows(i) ==
    /\ At(i, "encode") \/ At(i, "finalEncode")
    /\ Commit(i, Catch(handlers[i]))

Step(i) ==
    \/ NativeDecodeSettles(i)
    \/ ExifReturns(i)
    \/ FallbackDecodeSettles(i)
    \/ HeicNativeSettles(i)
    \/ HeicDataSettles(i)
    \/ HeicDecodeSettles(i)
    \/ EncodeReturns(i)
    \/ FinalEncodeReturns(i)
    \/ EncodeThrows(i)

Next ==
    \/ \E m \in InitMsgs : ReceiveInit(m)
    \/ \E file \in FileSet : ReceiveProcess(file)
    \/ ReceiveOther
    \/ \E i \in 1..MaxMsgs : Step(i)

Spec == Init /\ [][Next]_vars

-----------------------------------------------------------------------------
(* renderResizedJpeg over many rasters and tunings: one init, one JPEG request, *)
(* and possibly a second init while the request is suspended in its search      *)

JpegFile == [present |-> TRUE, type |-> "image/jpeg", ext |-> ".jpg"]

\* bitmap.width x bitmap.height
RenderRasters == { [w |-> w, h |-> h] : w \in 1..MaxSide, h \in 1..MaxSide }

\* msg.overrides: those of OverrideSet, a search without passes whose floor is
\* the start quality, and a search whose quality step is 0
RenderTunings ==
    OverrideSet
    \cup { [NoOverrides EXCEPT !.maxResizePasses = Num(0),
                               !.jpegMinQuality = Num(95)],
           [NoOverrides EXCEPT !.maxResizePasses = Num(2 * CountDen),
                               !.jpegQualityStep = Num(0)] }

RenderInitMsgs ==
    { [config |-> [max_long_side_px |-> l, target_max_bytes |-> Num(2)],
       overrides |-> o, heicWasmDecoder |-> "none"] :
         l \in { Absent, Num(1), Num(2) }, o \in RenderTunings }

\* the init messages that may arrive while the request is suspended
RetuneMsgs ==
    { [config |-> GoodConfig, overrides |-> o, heicWasmDecoder |-> "none"] :
         o \in { [NoOverrides EXCEPT !.jpegMinQuality = Num(99),
                                     !.maxQualityIters = Num(1 * CountDen)],
                 [NoOverrides EXCEPT !.jpegQualityStart = Num(70),
                                     !.maxResizePasses = Num(3 * CountDen),
                                     !.resizeDownFactor = Num(5)] } }

RenderInit == Init /\ ~hasImageDecoder

RenderInitMessage(m) == Len(handlers) = 0 /\ ReceiveInit(m)

RenderProcessMessage == Len(handlers) = 1 /\ ReceiveProcess(JpegFile)

RenderRetune(m) == Len(handlers) = 2 /\ Rendering(handlers[2]) /\ ReceiveInit(m)

RenderDecodeSettles(i) ==
    /\ At(i, "decode")
    /\ \E success \in BOOLEAN, raster \in RenderRasters :
          Commit(i, AfterNativeDecode(handlers[i], success, raster, RUNTIME))

\* readJpegExifOrientation returns a tag of 1..8 (line 60)
RenderExifReturns(i) ==
    /\ At(i, "exif")
    /\ \E orientation \in 1..8 :
          Commit(i, AfterExif(handlers[i], orientation))

RenderFallbackSettles(i) ==
    /\ At(i, "decodeFallback")
    /\ \E success \in BOOLEAN, raster \in RenderRasters :
          Commit(i, AfterFallbackDecode(handlers[i], success, raster, RUNTIME))

RenderNext ==
    \/ \E m \in RenderInitMsgs : RenderInitMessage(m)
    \/ RenderProcessMessage
    \/ \E m \in RetuneMsgs : RenderRetune(m)
    \/ \E i \in 1..2 :
          \/ RenderDecodeSettles(i)
          \/ RenderExifReturns(i)
          \/ RenderFallbackSettles(i)
          \/ EncodeReturns(i)
          \/ FinalEncodeReturns(i)
          \/ EncodeThrows(i)

RenderSpec == RenderInit /\ [][RenderNext]_vars

-----------------------------------------------------------------------------
(* readJpegExifOrientation over byte streams: every prefix of the streams built *)
(* from a description t of their segments                                       *)

U16Bytes(x, little) ==
    IF little THEN <<x % 256, x \div 256>> ELSE <<x \div 256, x % 256>>

U32Bytes(x, little) ==
    LET be == <<x \div 16777216, (x \div 65536) % 256, (x \div 256) % 256, x % 256>>
    IN  IF little THEN <<be[4], be[3], be[2], be[1]>> ELSE be

\* a marker segment: marker, size (the payload and the two size bytes), payload
Segment(marker, payload) ==
    U16Bytes(marker, FALSE) \o U16Bytes(Len(payload) + 2, FALSE) \o payload

\* a 12-byte IFD entry: tag, type, count, value
IfdEntry(tag, type, count, value, little) ==
    U16Bytes(tag, little) \o U16Bytes(type, little) \o U32Bytes(count, little)
        \o U16Bytes(value, little) \o <<0, 0>>

Zeros(n) == [k \in 1..n |-> 0]

\* n entries with the tag 0x010F (Make)
OtherEntries(n, little) ==
    LET one == IfdEntry(271, 2, 1, 0, little)
    IN  [k \in 1..(12 * n) |-> one[((k - 1) % 12) + 1]]

\* the payload of an Exif APP1 segment: signature, TIFF header, IFD0
ExifPayload(t) ==
    ExifSignature
        \o (IF t.little THEN <<73, 73>> ELSE <<77, 77>>)
        \o U16Bytes(t.magic, t.little)
        \o U32Bytes(t.ifdRel, t.little)
        \o Zeros(IF t.ifdRel \in 8..16 THEN t.ifdRel - 8 ELSE 0)
        \o U16Bytes(t.others + t.declaredExtra + (IF t.hasOrientation THEN 1 ELSE 0),
                    t.little)
        \o OtherEntries(t.others, t.little)
        \o (IF t.hasOrientation
            THEN IfdEntry(OrientationTag, t.type, t.count, t.value, t.little)
            ELSE << >>)

\* what precedes the Exif segment: nothing, a segment to skip, or a marker or size
\* at which the scan stops
Leads ==
    { "none", "app0", "app1_other", "app1_empty", "app1_exifish", "eoi", "sos", "badsize" }

LeadBytes(lead) ==
    CASE lead = "app0"         -> Segment(65504, <<74, 70, 73, 70, 0>>)
      [] lead = "app1_other"   -> Segment(APP1, <<104, 116, 116, 112, 58, 47>>)
      [] lead = "app1_empty"   -> Segment(APP1, << >>)
      [] lead = "app1_exifish" -> Segment(APP1, <<69, 120, 105, 102, 0, 1, 7>>)
      [] lead = "eoi"          -> U16Bytes(EOI, FALSE)
      [] lead = "sos"          -> U16Bytes(SOS, FALSE)
      [] lead = "badsize"      -> <<255, 224, 0, 1>>
      [] OTHER                 -> << >>

HeadBytes(t) == (IF t.soi THEN U16Bytes(SOI, FALSE) ELSE <<137, 80>>) \o LeadBytes(t.lead)

StreamBytes(t) ==
    HeadBytes(t)
        \o (IF t.hasExif THEN Segment(APP1, ExifPayload(t)) ELSE << >>)
        \o <<255, 218, 0, 2, 0>>

\* a JPEG with a little-endian Exif segment whose IFD0 is one orientation entry
BaseStream ==
    [ soi |-> TRUE, lead |-> "none", hasExif |-> TRUE, little |-> TRUE, magic |-> TiffMagic,
      ifdRel |-> 8, others |-> 0, declaredExtra |-> 0, hasOrientation |-> TRUE,
      type |-> ShortType, count |-> 1, value |-> 6 ]

ExifStreams ==
    { [BaseStream EXCEPT !.lead = l, !.little = e, !.value = v] :
         l \in Leads, e \in BOOLEAN, v \in {1, 8, 9} }
    \cup { [BaseStream EXCEPT !.value = v] : v \in {0, 3, 6, 256, 65535} }
    \cup { [BaseStream EXCEPT !.type = ty, !.count = c, !.little = e] :
              ty \in {1, ShortType, 4}, c \in {0, 1, 2, 65537}, e \in BOOLEAN }
    \cup { [BaseStream EXCEPT !.magic = m, !.ifdRel = r] :
              m \in {TiffMagic, 43}, r \in {8, 10, 70000} }
    \cup { [BaseStream EXCEPT !.others = n, !.declaredExtra = x, !.hasOrientation = o,
                              !.lead = l] :
              n \in 0..MaxOtherEntries, x \in {0, 1}, o \in BOOLEAN,
              l \in {"none", "app1_other"} }
    \cup { [BaseStream EXCEPT !.soi = FALSE, !.lead = l] : l \in {"none", "app0"} }
    \cup { [BaseStream EXCEPT !.hasExif = FALSE, !.lead = l] : l \in Leads }

\* a call of readJpegExifOrientation on the first `cut` bytes of the stream of t
ExifCall(t, cut) ==
    [NoExif EXCEPT !.pc = "open",
                   !.buf = SubSeq(StreamBytes(t), 1, cut),
                   !.meta = [t |-> t, cut |-> cut]]

ExifInit ==
    /\ RUNTIME = RuntimeDefaults
    /\ hasImageDecoder = FALSE
    /\ handlers = << >>
    /\ lastInit = NoInit
    /\ last = NoPost
    /\ \E t \in ExifStreams : \E cut \in 0..Len(StreamBytes(t)) : exif = ExifCall(t, cut)

ExifFrame == UNCHANGED <<RUNTIME, hasImageDecoder, handlers, lastInit, last>>

\* line 62 resumed: blob.arrayBuffer() settled
ExifBufferSettles == exif.pc = "open" /\ exif' = ExifOpen(exif) /\ ExifFrame

ExifScanStep == exif.pc = "scan" /\ exif' = ExifScan(exif) /\ ExifFrame

ExifEntryStep == exif.pc = "ifd" /\ exif' = ExifEntry(exif) /\ ExifFrame

ExifNext == ExifBufferSettles \/ ExifScanStep \/ ExifEntryStep

\* once the buffer is there the function runs to its end without another await
ExifSpec == ExifInit /\ [][ExifNext]_vars /\ WF_vars(ExifNext)

-----------------------------------------------------------------------------
(* Vocabulary of the properties *)

\* the invocations whose state is visible: those suspended at an await, and the
\* one that posted in the step just taken (as it was when it posted)
Visible == { handlers[i] : i \in DOMAIN handlers } \cup { last.h }

PostedNow == last.id # 0

\* the step just taken posted the response of a process request
ProcessAnswered == PostedNow /\ last.h.kind = "process"

\* the step just taken posted a success response of a process request
ProcessSucceeded == ProcessAnswered /\ last.resp.type = "process_ok"

PositiveFinite(x) == isFiniteNumber(x) /\ x.v > 0

\* the smallest natural number n with n >= x / CountDen
CeilPos(x) == IF x <= 0 THEN 0 ELSE (x + CountDen - 1) \div CountDen

ErrorCodes ==
    { "E_NOT_INITIALIZED", "E_CONFIG_TARGET_MAX_BYTES_MISSING", "E_NO_FILE",
      "E_HEIC_CONVERT_FAILED", "E_UNKNOWN_MESSAGE", "E_WORKER_EXCEPTION" }

-----------------------------------------------------------------------------
(* C1 *)

\* C1: every result renderResizedJpeg returns either fits targetMaxBytes or is the
\* final best-effort result flagged bestEffortOverLimit = true; a result accepted
\* inside the loop (no flag) fits; the flag of the final render is true exactly
\* when its size exceeds targetMaxBytes.
C1_WithinBudgetOrFlagged ==
    ProcessSucceeded =>
        LET n == last.resp.normalized
            t == last.h.targetMaxBytes
        IN  /\ n.bytes <= t \/ (n.bestEffortOverLimit = "true" /\ last.h.finalEncodes = 1)
            /\ n.bestEffortOverLimit = "absent" => n.bytes <= t /\ last.h.finalEncodes = 0
            /\ n.bestEffortOverLimit \in {"absent", "true", "false"}
            /\ n.bestEffortOverLimit # "absent" =>
                  (n.bestEffortOverLimit = "true" <=> n.bytes > t)

\* a best-effort result over the budget was returned
C1_Witness ==
    /\ ProcessSucceeded
    /\ last.resp.normalized.bestEffortOverLimit = "true"
    /\ last.resp.normalized.bytes > last.h.targetMaxBytes

-----------------------------------------------------------------------------
(* C2 *)

\* C2 as stated: renderResizedJpeg performs at most maxResizePasses *
\* maxQualityIters encodes inside the loops, for the configured values, zero,
\* negative and fractional ones included, plus exactly one final encode when no
\* attempt was accepted.
C2_AsStated ==
    \A h \in Visible :
        (Rendering(h) \/ (h = last.h /\ ProcessSucceeded)) =>
            /\ h.loopEncodes * CountDen * CountDen
                  <= h.limitsAtReceipt.maxResizePasses * h.limitsAtReceipt.maxQualityIters
            /\ h.finalEncodes <= 1

\* the encodes a request has started are within the bound of the amended claim
C2_EncodesBounded ==
    \A h \in Visible :
        /\ h.loopEncodes <= CeilPos(h.maxPassesSeen) * CeilPos(h.maxItersSeen)
        /\ h.finalEncodes <= 1
        /\ (h = last.h /\ ProcessSucceeded) =>
              (h.finalEncodes = 1 <=> last.resp.normalized.bestEffortOverLimit # "absent")
        /\ h.pc = "finalEncode" => h.finalEncodes = 1
        /\ h.pc = "encode" => h.finalEncodes = 0

\* each resumption of renderResizedJpeg returns, throws, or starts one more encode
C2_Progress(i) ==
    (Rendering(handlers[i]) /\ Len(handlers') = Len(handlers)
        /\ handlers'[i] # handlers[i]) =>
        \/ handlers'[i].pc = "done"
        \/ /\ Rendering(handlers'[i])
           /\ handlers'[i].loopEncodes + handlers'[i].finalEncodes
                 = handlers[i].loopEncodes + handlers[i].finalEncodes + 1

\* C2 (amended): renderResizedJpeg terminates when its encode calls return: it
\* starts at most ceil(maxResizePasses) * ceil(maxQualityIters) encodes inside the
\* loops (a negative limit counting as 0, each limit taken as the largest value in
\* force while the request was in flight), plus exactly one final encode when no
\* attempt was accepted, and each resumption starts one more encode or ends it.
C2_BoundedSearch ==
    /\ []C2_EncodesBounded
    /\ [][\A i \in DOMAIN handlers : C2_Progress(i)]_vars

\* a search under maxResizePasses = 1.5 and maxQualityIters = 0.5 that ran two
\* passes of one encode each, then the final render
C2_Witness ==
    /\ ProcessSucceeded
    /\ last.h.limitsAtReceipt.maxResizePasses = CountDen + 1
    /\ last.h.limitsAtReceipt.maxQualityIters = 1
    /\ last.h.loopEncodes = 2
    /\ last.h.finalEncodes = 1

-----------------------------------------------------------------------------
(* C3 *)

\* C3: an init whose config has no target_max_bytes is acknowledged with a
\* warning, and every process message received while that init is the latest one
\* is answered at once with E_CONFIG_TARGET_MAX_BYTES_MISSING, with no decode, no
\* encode and no normalized output; an init with a positive finite budget is
\* acknowledged without a warning.
C3_MissingBudget ==
    /\ (PostedNow /\ last.h.kind = "init") =>
          /\ last.resp.type = "init_ok"
          /\ ConfigBudget(lastInit) = Absent => last.resp.warnings >= 1
          /\ PositiveFinite(ConfigBudget(lastInit)) => last.resp.warnings = 0
    /\ \A h \in Visible :
          (h.kind = "process" /\ h.configBudgetAtReceipt = Absent) =>
             /\ ~InFlight(h)
             /\ h.decodes = 0 /\ h.loopEncodes = 0 /\ h.finalEncodes = 0
             /\ h = last.h =>
                   /\ last.resp.code = "E_CONFIG_TARGET_MAX_BYTES_MISSING"
                   /\ ~last.resp.ok
                   /\ last.resp.normalized = NoResult

\* a process request refused after a budget that an earlier init had set was lost
C3_Witness ==
    /\ ProcessAnswered
    /\ last.resp.code = "E_CONFIG_TARGET_MAX_BYTES_MISSING"
    /\ last.h.configBudgetAtReceipt = Absent
    /\ last.id = 3

-----------------------------------------------------------------------------
(* C4 *)

\* C4 as stated: whenever the configured targetMaxBytes is not a positive finite
\* number, every process request is answered with
\* E_CONFIG_TARGET_MAX_BYTES_MISSING before any decode is attempted, never with
\* another error code.
C4_AsStated ==
    \A h \in Visible :
        (h.kind = "process" /\ h.readyAtReceipt /\ ~PositiveFinite(h.budgetAtReceipt)) =>
            /\ ~InFlight(h)
            /\ h.decodes = 0
            /\ h = last.h => last.resp.code = "E_CONFIG_TARGET_MAX_BYTES_MISSING"

-----------------------------------------------------------------------------
(* C5 *)

\* C5: every message is answered by exactly one post once its handler has
\* finished, and by none before; the post is a success payload or an error payload
\* with one of the six fixed codes, also when a decode or encode step throws.
C5_ExactlyOneResponse ==
    /\ \A i \in DOMAIN handlers :
          handlers[i].posts = IF InFlight(handlers[i]) THEN 0 ELSE 1
    /\ PostedNow =>
          /\ last.h.posts = 1 /\ ~InFlight(last.h)
          /\ \/ last.resp.ok /\ last.resp.code = ""
                             /\ last.resp.type \in {"init_ok", "process_ok"}
             \/ ~last.resp.ok /\ last.resp.code \in ErrorCodes

\* a handler that ended in the catch-all after an encode threw
C5_Witness ==
    /\ ProcessAnswered
    /\ last.resp.code = "E_WORKER_EXCEPTION"
    /\ last.h.loopEncodes > 0
    /\ last.h.posts = 1

-----------------------------------------------------------------------------
(* C6 *)

\* C6 as stated: every failure response to a process request carries the request
\* identifier of that request, whatever its error code.
C6_AsStated ==
    (ProcessAnswered /\ ~last.resp.ok) => last.resp.requestId = Num(last.id)

-----------------------------------------------------------------------------
(* C7 *)

SomeInFlight == \E i \in DOMAIN handlers : InFlight(handlers[i])

\* C7 as stated: once a process request has started, no other message begins to
\* be handled until its response has been posted, so that two process requests
\* are never in flight together.
C7_AsStated == [][SomeInFlight => Len(handlers') = Len(handlers)]_vars

-----------------------------------------------------------------------------
(* C8 *)

\* every limit an in-flight request reads still has the value it had at receipt
C8_InFlightStable ==
    \A i \in DOMAIN handlers :
        InFlight(handlers[i]) => Limits(RUNTIME) = handlers[i].limitsAtReceipt

\* C8 as stated: once an init has completed no later message changes any limit,
\* and every limit an in-flight process request reads has the same value at every
\* step of that request.
C8_AsStated ==
    /\ []C8_InFlightStable
    /\ [][RUNTIME.ready => RUNTIME' = RUNTIME]_vars

-----------------------------------------------------------------------------
(* C9 *)

\* C9 as stated: on every exit path of a process request that acquired a raster
\* or a canvas, the raster is closed and every canvas is zeroed before the
\* response is posted.
C9_AsStated ==
    ProcessAnswered => ~last.h.bitmapOpen /\ last.h.canvases = 0

-----------------------------------------------------------------------------
(* C10 *)

Occurs(trace, e) == \E k \in DOMAIN trace : trace[k] = e

\* C10: for a HEIC-like file the platform codec is tried first when it is present;
\* the plugin is invoked only when the platform codec is absent or its attempt
\* failed, never after a successful platform decode; with no platform codec and
\* no plugin installed the request ends with E_HEIC_CONVERT_FAILED.
C10_HeicOrder ==
    \A h \in Visible :
        isHeicLike(h.mime) =>
            /\ hasImageDecoder => (h.trace # << >> /\ h.trace[1] = "platform")
            /\ ~hasImageDecoder => ~Occurs(h.trace, "platform")
            /\ \A k \in DOMAIN h.trace :
                  h.trace[k] = "plugin" =>
                      IF hasImageDecoder THEN k > 1 /\ h.trace[k - 1] = "platform_failed"
                      ELSE k = 1
            /\ Occurs(h.trace, "platform_ok") => ~Occurs(h.trace, "plugin")
            /\ (~hasImageDecoder /\ h.limitsAtReceipt.heicWasm = "none") =>
                  /\ h = last.h
                  /\ last.resp.code = "E_HEIC_CONVERT_FAILED"
                  /\ ~last.resp.ok

\* the plugin decoded a HEIC file after the platform codec had failed
C10_Witness ==
    /\ ProcessSucceeded
    /\ isHeicLike(last.h.mime)
    /\ last.h.trace = <<"platform", "platform_failed", "plugin">>

-----------------------------------------------------------------------------
(* C11 *)

\* the output size renderResizedJpeg computes from a raw decode of srcW x srcH
DerivedSize(h) ==
    IF h.orientation \in 5..8
    THEN [w |-> OutDim(h.srcH, h.sn, h.sd), h |-> OutDim(h.srcW, h.sn, h.sd)]
    ELSE [w |-> OutDim(h.srcW, h.sn, h.sd), h |-> OutDim(h.srcH, h.sn, h.sd)]

\* C11 as stated: in every result renderResizedJpeg returns, accepted or
\* best-effort, the output width and height are each >= 1, the output long side
\* is <= maxLongSidePx, and the output size is derived from the oriented size: for
\* the tags 5..8 the width comes from the raw decode height and the height from
\* the raw decode width, for the tags 1..4 they are not swapped.
C11_AsStated ==
    ProcessSucceeded =>
        LET n == last.resp.normalized
        IN  /\ n.width >= 1 /\ n.height >= 1
            /\ Max(n.width, n.height) <= last.h.maxLongSidePx
            /\ n.width = DerivedSize(last.h).w
            /\ n.height = DerivedSize(last.h).h

-----------------------------------------------------------------------------
(* C12 *)

\* C12 as stated: the orientation tag handed to renderResizedJpeg is an integer in
\* 1..8 whichever decode strategy produced it; an orientation of the plugin that
\* is absent or outside 1..8 is defaulted to 1 or rejected, never used as is.
C12_AsStated ==
    \A h \in Visible :
        (Rendering(h) \/ (h = last.h /\ ProcessSucceeded)) => h.orientation \in 1..8

-----------------------------------------------------------------------------
(* C13 *)

PreCheckCodes ==
    { "E_NOT_INITIALIZED", "E_CONFIG_TARGET_MAX_BYTES_MISSING", "E_NO_FILE" }

\* the byte budget is missing: null (no finite number was configured) or 0
MissingBudget(b) == ~isFiniteNumber(b) \/ b.v = 0

\* the first check a process message fails, given the worker as it was when the
\* message was received ("" when it passes all three)
FirstFailingCheck(h) ==
    IF ~h.readyAtReceipt THEN "E_NOT_INITIALIZED"
    ELSE IF MissingBudget(h.budgetAtReceipt) THEN "E_CONFIG_TARGET_MAX_BYTES_MISSING"
    ELSE IF ~h.file.present THEN "E_NO_FILE"
    ELSE ""

AnInitCompleted == \E i \in DOMAIN handlers : handlers[i].kind = "init"

C13_FirstFailingCheckDecides ==
    /\ \A i \in DOMAIN handlers :
          InFlight(handlers[i]) => FirstFailingCheck(handlers[i]) = ""
    /\ ProcessAnswered =>
          /\ FirstFailingCheck(last.h) # "" =>
                /\ last.resp.code = FirstFailingCheck(last.h)
                /\ ~last.resp.ok
                /\ last.h.decodes = 0 /\ last.h.trace = << >>
                /\ last.h.loopEncodes = 0 /\ last.h.finalEncodes = 0
          /\ last.resp.code \in PreCheckCodes =>
                last.resp.code = FirstFailingCheck(last.h)
    /\ (PostedNow /\ last.resp.code = "E_NOT_INITIALIZED") => ~AnInitCompleted

PreCheckFailed == ProcessAnswered /\ last.resp.code \in PreCheckCodes

\* C13: a process message is checked in a fixed order and the first failing check
\* decides the response: not initialized gives E_NOT_INITIALIZED, else a missing
\* byte budget gives E_CONFIG_TARGET_MAX_BYTES_MISSING, else a missing file gives
\* E_NO_FILE; on any of these no decode is attempted and RUNTIME is unchanged; once
\* an init has completed E_NOT_INITIALIZED is never returned again.
C13_PreCheckOrder ==
    /\ []C13_FirstFailingCheckDecides
    /\ [][PreCheckFailed' => RUNTIME' = RUNTIME]_vars

\* a message with neither a budget configured nor a file: the budget check decides
C13_Witness ==
    /\ ProcessAnswered
    /\ last.h.readyAtReceipt
    /\ MissingBudget(last.h.budgetAtReceipt)
    /\ ~last.h.file.present
    /\ last.resp.code = "E_CONFIG_TARGET_MAX_BYTES_MISSING"

-----------------------------------------------------------------------------
(* C14 *)

\* the raster's oriented long side is within maxLongSidePx
WithinLongSide(h) == Max(h.oW, h.oH) <= h.maxLongSidePx

\* the one encode made so far was at the start quality, at full size, and fitted
FitsAtStartQuality(h) ==
    /\ h.kind = "process"
    /\ h.firstFit = "yes"
    /\ h.loopEncodes + h.finalEncodes = 1
    /\ h.q = h.limitsAtRender.jpegQualityStart
    /\ h.outW = h.oW /\ h.outH = h.oH

\* renderResizedJpeg accepted on pass 0, iteration 0
AcceptedAtOnce(h) ==
    /\ h = last.h /\ ProcessSucceeded
    /\ LET n == last.resp.normalized
       IN  /\ n.sn = n.sd
           /\ n.quality = h.limitsAtRender.jpegQualityStart
           /\ n.pass = 0 /\ n.iter = 0
           /\ n.bestEffortOverLimit = "absent"
           /\ n.bytes <= h.targetMaxBytes
           /\ n.width = h.oW /\ n.height = h.oH
    /\ h.loopEncodes = 1 /\ h.finalEncodes = 0

\* C14 as stated: when the raster's oriented long side is <= maxLongSidePx and its
\* encoding at the start quality at full size is <= targetMaxBytes,
\* renderResizedJpeg accepts on the first resize pass and first quality iteration:
\* scale 1, quality jpegQualityStart, pass 0, iter 0, exactly one encode, and
\* bestEffortOverLimit not set.
C14_AsStated ==
    \A h \in Visible :
        (WithinLongSide(h) /\ FitsAtStartQuality(h)) => AcceptedAtOnce(h)

\* both loops are entered: maxResizePasses > 0 and maxQualityIters > 0 at the call
LoopsEntered(h) ==
    h.limitsAtRender.maxResizePasses > 0 /\ h.limitsAtRender.maxQualityIters > 0

\* C14 (amended): when maxResizePasses > 0 and maxQualityIters > 0, the raster's
\* oriented long side is <= maxLongSidePx and the first encode fits targetMaxBytes,
\* that encode was made at full size at jpegQualityStart and renderResizedJpeg
\* accepts it: scale 1, quality jpegQualityStart, pass 0, iter 0, exactly one
\* encode, bestEffortOverLimit not set.
C14_FirstPassAccept ==
    \A h \in Visible :
        (h.kind = "process" /\ LoopsEntered(h) /\ WithinLongSide(h)) =>
            /\ (Rendering(h) /\ h.loopEncodes + h.finalEncodes = 1) =>
                  /\ h.pc = "encode" /\ h.pass = 0 /\ h.iter = 0
                  /\ h.sn = h.sd /\ h.outW = h.oW /\ h.outH = h.oH
                  /\ h.q = h.limitsAtRender.jpegQualityStart
            /\ h.firstFit = "yes" => AcceptedAtOnce(h)

\* a raster turned by tag 6, within both limits, accepted at once
C14_Witness ==
    /\ ProcessSucceeded
    /\ LoopsEntered(last.h) /\ WithinLongSide(last.h)
    /\ last.h.firstFit = "yes"
    /\ last.h.orientation = 6
    /\ last.h.srcW # last.h.srcH
    /\ AcceptedAtOnce(last.h)

-----------------------------------------------------------------------------
(* C15 *)

ExifReturned == exif.pc = "returned"

StartsWithSOI(buf) == Len(buf) >= 2 /\ buf[1] = 255 /\ buf[2] = 216

\* the offsets, in the stream of t, at which the Exif signature and the
\* orientation entry (the last entry of IFD0) end
SignatureEnd(t) == Len(HeadBytes(t)) + 4 + Len(ExifSignature)

EntryEnd(t) == Len(HeadBytes(t)) + 4 + Len(ExifPayload(t))

\* the stream has no Exif APP1 segment before an EOI or SOS marker
NoExifSegment(m) ==
    ~m.t.hasExif \/ m.t.lead \in {"eoi", "sos"} \/ m.cut < SignatureEnd(m.t)

\* the stream has an orientation entry whose type, count or value is not valid
BadOrientationEntry(m) ==
    /\ m.t.hasExif /\ m.t.hasOrientation /\ m.cut >= EntryEnd(m.t)
    /\ m.t.type # ShortType \/ m.t.count # 1 \/ m.t.value \notin 1..8

\* a JPEG whose Exif segment is reached by the scan and holds a valid entry
WellFormed(m) ==
    /\ m.t.soi /\ m.t.lead \notin {"eoi", "sos", "badsize"}
    /\ m.t.hasExif /\ m.t.magic = TiffMagic /\ m.t.ifdRel \in 8..16
    /\ m.t.hasOrientation /\ m.cut >= EntryEnd(m.t)
    /\ m.t.type = ShortType /\ m.t.count = 1 /\ m.t.value \in 1..8

C15_Returns ==
    /\ exif.pc # "raised"
    /\ ExifReturned =>
          /\ exif.result \in 1..8
          /\ ~StartsWithSOI(exif.buf) => exif.result = 1
          /\ NoExifSegment(exif.meta) => exif.result = 1
          /\ BadOrientationEntry(exif.meta) => exif.result = 1
          /\ WellFormed(exif.meta) => exif.result = exif.meta.t.value

\* C15: for every byte sequence, empty and truncated ones included,
\* readJpegExifOrientation terminates, never raises, and returns an integer in
\* 1..8; it returns 1 for a stream that does not start with the SOI marker, for a
\* stream with no Exif APP1 segment before EOI/SOS, and when the orientation entry
\* has a type other than short, a count other than 1 or a value outside 1..8; an
\* APP1 segment without the Exif signature is skipped and the scan continues with
\* the next segment (the orientation of a valid Exif segment after it is returned).
C15_ExifTotal == []C15_Returns /\ <>ExifReturned

\* the tag 8 of an Exif segment found after an APP1 segment without the signature
C15_Witness ==
    /\ ExifReturned
    /\ exif.meta.t.lead = "app1_other"
    /\ exif.meta.t.value = 8
    /\ exif.result = 8

-----------------------------------------------------------------------------
(* C16 *)

\* C16 as stated: under any configured tuning values, every quality passed to an
\* encode call, inside the quality loop and in the final render, is >=
\* jpegMinQuality, and the quality used within one resize pass never increases
\* from one iteration to the next.
C16_AsStated ==
    \A h \in Visible :
        Rendering(h) =>
            /\ h.q >= h.floor
            /\ h.prevQ # Absent => h.q <= h.prevQ.v

-----------------------------------------------------------------------------
(* C17 *)

\* min(1, maxLongSidePx / orientedLongSide) as the fraction n / d
InitialScale(h) ==
    LET longSide == Max(h.oW, h.oH)
    IN  IF h.maxLongSidePx < longSide THEN [n |-> h.maxLongSidePx, d |-> longSide]
        ELSE [n |-> 1, d |-> 1]

\* C17 as stated: under any configured tuning values the scale never exceeds 1 and
\* is non-increasing from each resize pass to the next and to the final render;
\* the initial scale is min(1, maxLongSidePx / orientedLongSide).
C17_AsStated ==
    \A h \in Visible :
        Rendering(h) =>
            /\ h.sn <= h.sd
            /\ h.sn * h.prevSd <= h.prevSn * h.sd
            /\ h.sn0 * InitialScale(h).d = InitialScale(h).n * h.sd0

-----------------------------------------------------------------------------
(* C18 *)

\* the step multiplies the scale of invocation i by resizeDownFactor
Shrunk(i) == handlers'[i].pass > handlers[i].pass

\* the encodes invocation i has performed at its current scale, the one that is
\* returning in this step included
PassEncodes(i) == IF handlers[i].pc = "encode" THEN handlers[i].iter + 1 ELSE 0

\* one composite per resize pass, and one for the final render
C18_OneCompositePerPass ==
    \A h \in Visible : Rendering(h) => h.composites = h.pass + 1

C18_ShrinkAsStated(i) ==
    Shrunk(i) =>
        /\ handlers'[i].prevAllOver
        /\ \/ handlers[i].pc = "encode" /\ handlers[i].q = RUNTIME.jpegMinQuality
           \/ PassEncodes(i) * CountDen >= RUNTIME.maxQualityIters
        /\ handlers'[i].pass > handlers[i].pass + 1 => RUNTIME.maxQualityIters <= 0

C18_Shrink(i) ==
    Shrunk(i) =>
        /\ handlers'[i].prevAllOver
        /\ \/ /\ handlers[i].pc = "encode"
              /\ Max(RUNTIME.jpegMinQuality, handlers[i].q - RUNTIME.jpegQualityStep)
                    = handlers[i].q
           \/ PassEncodes(i) * CountDen >= RUNTIME.maxQualityIters
        /\ handlers'[i].pass > handlers[i].pass + 1 => RUNTIME.maxQualityIters <= 0

-----------------------------------------------------------------------------
(* C19 *)

RECURSIVE Pow(_, _)

Pow(b, k) == IF k = 0 THEN 1 ELSE b * Pow(b, k - 1)

\* the scale of h is initialScale * resizeDownFactor^k, the factor being the one
\* configured when renderResizedJpeg was called
ScaleIsShrunk(h, k) ==
    h.sn * h.sd0 * Pow(FactorDen, k)
        = h.sn0 * Pow(h.limitsAtRender.resizeDownFactor, k) * h.sd

\* C19 as stated: when no attempt is accepted in any resize pass,
\* renderResizedJpeg performs exactly one more render and encode, at quality =
\* jpegMinQuality and at scale = initialScale * resizeDownFactor^maxResizePasses,
\* and returns that result unconditionally; the returned attempt is no larger in
\* dimensions and no higher in quality than any attempt made during the loops, and
\* it is returned with bestEffortOverLimit = false when it fits the budget.
\* (Stated for the requests during which no init has changed the limits.)
C19_AsStated ==
    \A h \in Visible :
      Limits(RUNTIME) = h.limitsAtRender =>
        /\ h.pc = "finalEncode" =>
              LET passes == h.limitsAtRender.maxResizePasses
              IN  /\ h.finalEncodes = 1
                  /\ h.q = h.floor
                  /\ (passes >= 0 /\ passes % CountDen = 0) =>
                        ScaleIsShrunk(h, passes \div CountDen)
                  /\ h.loopEncodes > 0 =>
                        /\ h.outW <= h.loopMinW /\ h.outH <= h.loopMinH
                        /\ h.q <= h.loopMinQ
        /\ (h = last.h /\ ProcessSucceeded /\ h.finalEncodes = 1) =>
              LET n == last.resp.normalized
              IN  /\ n.quality = h.q /\ n.width = h.outW /\ n.height = h.outH
                  /\ n.bestEffortOverLimit = IF n.bytes <= h.targetMaxBytes
                                             THEN "false" ELSE "true"

-----------------------------------------------------------------------------
(* C20 *)

TuningNames ==
    { "jpegQualityStart", "jpegMinQuality", "jpegQualityStep", "maxQualityIters",
      "maxResizePasses", "resizeDownFactor" }

\* the step handles an init message (which becomes lastInit')
InitHandled ==
    /\ Len(handlers') = Len(handlers) + 1
    /\ handlers'[Len(handlers')].kind = "init"

\* what an init message does to RUNTIME
C20_InitFrame ==
    InitHandled =>
        LET c == lastInit'.config
            o == lastInit'.overrides
        IN  /\ RUNTIME'.maxLongSidePx =
                  IF isFiniteNumber(c.max_long_side_px) THEN c.max_long_side_px.v ELSE 2560
            /\ RUNTIME'.targetMaxBytes =
                  IF isFiniteNumber(c.target_max_bytes) THEN c.target_max_bytes ELSE Null
            /\ \A n \in TuningNames :
                  RUNTIME'[n] = IF isFiniteNumber(o[n]) THEN o[n].v ELSE RUNTIME[n]
            /\ lastInit'.heicWasmDecoder = "none" => RUNTIME'.heicWasm = RUNTIME.heicWasm
            /\ RUNTIME'.ready

\* C20 as stated: an init leaves unchanged any HEIC decoder an earlier init
\* installed, whether or not it brings one itself
C20_AsStated ==
    [][(InitHandled /\ RUNTIME.heicWasm # "none") => RUNTIME'.heicWasm = RUNTIME.heicWasm]_vars

\* C20: across any sequence of init messages, each init overwrites maxLongSidePx
\* and targetMaxBytes from its own config (2560 and null when the config omits
\* them, so a byte budget configured before is lost), leaves unchanged every
\* tuning value not named in its overrides and, when it brings no decoder, the
\* HEIC decoder an earlier init installed; no other message changes RUNTIME, and
\* ready, once true, stays true.
C20_InitOverwrites ==
    /\ [][C20_InitFrame]_vars
    /\ [][~InitHandled => RUNTIME' = RUNTIME]_vars
    /\ [][RUNTIME.ready => RUNTIME'.ready]_vars

\* after a second init without config values, overrides or decoder: the budget of
\* the first init is lost, its tuning and its decoder are still there
C20_Witness ==
    /\ PostedNow /\ last.h.kind = "init" /\ last.id >= 2
    /\ lastInit.overrides = NoOverrides
    /\ lastInit.heicWasmDecoder = "none"
    /\ RUNTIME.targetMaxBytes = Null
    /\ RUNTIME.maxLongSidePx = 2560
    /\ RUNTIME.maxResizePasses = ShortRun.maxResizePasses.v
    /\ RUNTIME.heicWasm = "wasmA"

=============================================================================
